---- MODULE Spec2Model ----
(***************************************************************************)
(* Model of speech_to_phrase/transcribe.py: the dispatcher `transcribe`,   *)
(* the WAV reader `audio_stream` and the command line driver `main`.       *)
(*                                                                         *)
(* Spec      : transcribe() used as a library by NumCalls concurrent       *)
(*             asyncio tasks sharing one Model and one Settings object.    *)
(* SpecMain  : the command line program main().                            *)
(***************************************************************************)
EXTENDS Integers, Sequences, FiniteSets, TLC

\* ---------------------------------------------------------------- bounds
NumCalls == 2       \* concurrent transcribe() calls / WAV files on the command line
MaxFrames == 2      \* frames held by one audio source

Calls == 1..NumCalls

\* values of args.chunk_size tried (argparse type=int accepts all of them)
ChunkSizes == {-1, 0, 1, 2}

\* texts a backend may return
Texts == {"", "turn on the light"}

\* failures a backend may raise by itself
BackendErrors == {"TranscribingError:backend"}

None == [id |-> "None", type |-> "NoneType"]

\* ---------------------------------------------------------------- models.py (not in src/)
KALDI == "ModelType.KALDI"
COQUI_STT == "ModelType.COQUI_STT"

\* the registry: every registered model has one of the known types
MODELS ==
  { [id |-> "en_US-rhasspy", type |-> KALDI],
    [id |-> "en_US-coqui", type |-> COQUI_STT] }

\* a descriptor whose type no branch of transcribe() handles
OtherModel == [id |-> "xx_XX-other", type |-> "ModelType.OTHER"]

ModelIds == {m.id : m \in MODELS} \cup {"no_SUCH-model"}

\* Settings(...) built by main, lines 60-68
MainSettings ==
  [ models_dir |-> "models", train_dir |-> "train", tools_dir |-> "tools",
    custom_sentences_dirs |-> <<>>, hass_token |-> "", hass_websocket_uri |-> "",
    retrain_on_connect |-> FALSE ]

VARIABLES
  argv,       \* parsed command line: [model, wav, chunk_size]
  fs,         \* fs[k]: the audio source k: [ok, nframes]
  model,      \* the Model object shared by the calls (None before/without lookup)
  settings,   \* the Settings object shared by the calls
  pos,        \* pos[s]: read position (in frames) of the Wave_read behind stream s
  call,       \* call[c]: state of the c-th transcribe() call
  mainst      \* state of main(): [pc, k, open, opened, log, error]

vars == <<argv, fs, model, settings, pos, call, mainst>>

\* ---------------------------------------------------------------- sequences
Min(a, b) == IF a < b THEN a ELSE b

IsPrefix(s, t) == Len(s) <= Len(t) /\ SubSeq(t, 1, Len(s)) = s

\* the frames of source k, in capture order; frame <<k, i>> is the i-th of source k
Frames(k) == [i \in 1..fs[k].nframes |-> <<k, i>>]

\* ---------------------------------------------------------------- the WAV reader
\* wave.Wave_read.readframes(n) at position p of source k: the frames read
\* (none for n = 0, all that remain for n < 0, at most n otherwise)
readframes(k, p, n) ==
  LET total == fs[k].nframes
      cnt == IF n = 0 THEN 0 ELSE IF n < 0 THEN total - p ELSE Min(n, total - p)
  IN  SubSeq(Frames(k), p + 1, p + cnt)

\* one __anext__ of audio_stream(f): the chunk read; an empty chunk ends the stream
\* variant: the chunk is read once for the loop test and again for the yield
audio_stream_skip(k, p, n) ==
  LET dropped == readframes(k, p, n)
      p2 == p + Len(dropped)
      chunk == readframes(k, p2, n)
  IN  [chunk |-> chunk, pos |-> p2 + Len(chunk), stop |-> dropped = <<>> \/ chunk = <<>>]

audio_stream(k, p, n) ==
  LET chunk == readframes(k, p, n)
  IN  [chunk |-> chunk, pos |-> p + Len(chunk), stop |-> chunk = <<>>]

\* the whole sequence of chunks audio_stream yields from position p on
RECURSIVE Chunks(_, _, _)
Chunks(k, p, n) ==
  LET chunk == readframes(k, p, n)
  IN  IF chunk = <<>> THEN <<>> ELSE <<chunk>> \o Chunks(k, p + Len(chunk), n)

\* ---------------------------------------------------------------- transcribe()
\* lines 22-28: the backend the if-chain selects, "none" when it falls through
\* variant: the two branches call each other's backend
SelectBackendSwapped(m) ==
  IF m.type = KALDI THEN "transcribe_coqui_stt"
  ELSE IF m.type = COQUI_STT THEN "transcribe_kaldi"
  ELSE "none"

SelectBackend(m) ==
  IF m.type = KALDI THEN "transcribe_kaldi"
  ELSE IF m.type = COQUI_STT THEN "transcribe_coqui_stt"
  ELSE "none"

\* lines 23 and 26: the arguments handed to the backend for call c
\* variant: the stream comes from module state shared by the calls
BackendArgsSharedStream(m, s, c) == [model |-> m, settings |-> s, audio_stream |-> 1]

BackendArgs(m, s, c) == [model |-> m, settings |-> s, audio_stream |-> c]

\* line 28: the error raised when no branch matched; the message is the f-string's parts
\* variant: the message leaves the type out
UnexpectedModelTypeNoType(m) ==
  [kind |-> "raised", error |-> "TranscribingError",
   value |-> <<"Unexpected model type for ", m.id>>]

UnexpectedModelType(m) ==
  [kind |-> "raised", error |-> "TranscribingError",
   value |-> <<"Unexpected model type for ", m.id, ": ", m.type>>]

\* lines 23 and 26, `return await backend(...)`: what the call yields when the
\* backend returns text / raises exc (CancelledError included)
\* variant: `await` without `return`
ReturnAwaitNone(text) == [kind |-> "returned", error |-> "", value |-> <<>>]

\* variant: an empty text is turned into a failure
ReturnAwaitNonEmpty(text) ==
  IF text = ""
  THEN [kind |-> "raised", error |-> "TranscribingError", value |-> <<>>]
  ELSE [kind |-> "returned", error |-> "", value |-> <<text>>]

ReturnAwait(text) == [kind |-> "returned", error |-> "", value |-> <<text>>]

\* variant: `except Exception: return ""`
PropagateSwallowed(exc) == [kind |-> "returned", error |-> "", value |-> <<"">>]

\* variant: `except asyncio.CancelledError: return ""`
PropagateExceptCancel(exc) ==
  IF exc = "CancelledError"
  THEN [kind |-> "returned", error |-> "", value |-> <<"">>]
  ELSE [kind |-> "raised", error |-> exc, value |-> <<>>]

Propagate(exc) == [kind |-> "raised", error |-> exc, value |-> <<>>]

NoOutcome == [kind |-> "none", error |-> "", value |-> <<>>]

\* a transcribe() call that has not been made yet
IdleCall ==
  [ pc |-> "idle",          \* idle, called, running (backend suspended), done
    invoked |-> <<>>,       \* backend invocations made by this call, in order
    received |-> <<>>,      \* chunks the backend got from its stream, in order
    exhausted |-> FALSE,    \* the backend saw the end of its stream
    backend_out |-> NoOutcome,  \* what the backend returned or raised
    outcome |-> NoOutcome ]     \* what transcribe() returned or raised

\* transcribe(model, settings, audio_stream) runs up to the backend's first await
transcribe(c) ==
  /\ call[c].pc = "called"
  /\ IF model = None
     THEN \* model.type on None
          call' = [call EXCEPT ![c].pc = "done",
                               ![c].outcome = Propagate("AttributeError")]
     ELSE LET b == SelectBackend(model) IN
          IF b = "none"
          THEN call' = [call EXCEPT ![c].pc = "done",
                                    ![c].outcome = UnexpectedModelType(model)]
          ELSE call' = [call EXCEPT ![c].pc = "running",
                                    ![c].invoked = Append(@,
                                        [backend |-> b, args |-> BackendArgs(model, settings, c)])]
  /\ UNCHANGED <<argv, fs, model, settings, pos, mainst>>

\* ---------------------------------------------------------------- backends (not in src/)
StreamOf(c) == call[c].invoked[Len(call[c].invoked)].args.audio_stream

\* the backend asks its stream for the next chunk
BackendRead(c) ==
  /\ call[c].pc = "running"
  /\ ~call[c].exhausted
  /\ LET s == StreamOf(c)
         r == audio_stream(s, pos[s], argv.chunk_size)
     IN  /\ pos' = [pos EXCEPT ![s] = r.pos]
         /\ call' = [call EXCEPT ![c].received = IF r.stop THEN @ ELSE Append(@, r.chunk),
                                 ![c].exhausted = r.stop]
  /\ UNCHANGED <<argv, fs, model, settings, mainst>>

\* the backend returns a text (at the end of the stream, or when it decides it is done)
BackendReturn(c) ==
  /\ call[c].pc = "running"
  /\ \E text \in Texts :
       call' = [call EXCEPT ![c].pc = "done",
                            ![c].backend_out = [kind |-> "returned", error |-> "", value |-> <<text>>],
                            ![c].outcome = ReturnAwait(text)]
  /\ UNCHANGED <<argv, fs, model, settings, pos, mainst>>

\* the backend fails
BackendFail(c) ==
  /\ call[c].pc = "running"
  /\ \E exc \in BackendErrors :
       call' = [call EXCEPT ![c].pc = "done",
                            ![c].backend_out = [kind |-> "raised", error |-> exc, value |-> <<>>],
                            ![c].outcome = Propagate(exc)]
  /\ UNCHANGED <<argv, fs, model, settings, pos, mainst>>

\* the task awaiting transcribe() is cancelled while the backend is suspended:
\* CancelledError is thrown into the backend's await and comes out of the backend
Cancel(c) ==
  /\ call[c].pc = "running"
  /\ call' = [call EXCEPT ![c].pc = "done",
                          ![c].backend_out = [kind |-> "raised", error |-> "CancelledError", value |-> <<>>],
                          ![c].outcome = Propagate("CancelledError")]
  /\ UNCHANGED <<argv, fs, model, settings, pos, mainst>>

\* ---------------------------------------------------------------- library use
\* a task calls transcribe(model, settings, stream c) with a fresh stream
Call(c) ==
  /\ mainst.pc = "library"
  /\ call[c].pc = "idle"
  /\ call' = [call EXCEPT ![c].pc = "called"]
  /\ UNCHANGED <<argv, fs, model, settings, pos, mainst>>

NoMain == [pc |-> "library", k |-> 0, open |-> {}, opened |-> <<>>, log |-> <<>>, error |-> ""]

Init ==
  /\ \E n \in ChunkSizes : argv = [model |-> "", wav |-> <<>>, chunk_size |-> n]
  /\ fs \in [Calls -> [ok : {TRUE}, nframes : 0..MaxFrames]]
  /\ \A c \in Calls : c > 1 => fs[c - 1].nframes <= fs[c].nframes  \* calls are interchangeable
  /\ model \in MODELS \cup {OtherModel}
  /\ settings = MainSettings
  /\ pos = [c \in Calls |-> 0]
  /\ call = [c \in Calls |-> IdleCall]
  /\ mainst = NoMain

Next ==
  \E c \in Calls :
    \/ Call(c)
    \/ transcribe(c)
    \/ BackendRead(c)
    \/ BackendReturn(c)
    \/ BackendFail(c)
    \/ Cancel(c)

Spec == Init /\ [][Next]_vars

\* ---------------------------------------------------------------- main()
\* line 57: next(iter(m for m in MODELS.values() if m.id == args.model), None)
Lookup(id) ==
  IF \E m \in MODELS : m.id = id THEN CHOOSE m \in MODELS : m.id = id ELSE None

\* line 71, `with wave.open(...)`: the files left open when the block for file k
\* is left, normally (raised = FALSE) or by an exception (raised = TRUE)
\* variant: close() after the await instead of a with block
WithExitLeaky(open, k, raised) == IF raised THEN open ELSE open \ {k}

WithExit(open, k, raised) == open \ {k}

\* line 70, `for wav_path in args.wav`: the file after file k
NextWav(k) == k + 1

\* a local of main that is not bound yet
Unset == [id |-> "unset", type |-> "unset"]

\* lines 57-68: look the model up, assert it was found, build the settings.
\* The assert statement raises only when __debug__ holds (no -O / PYTHONOPTIMIZE).
MainLookup ==
  /\ mainst.pc = "start"
  /\ \E debug \in BOOLEAN :
       LET m == Lookup(argv.model) IN
       IF m = None /\ debug
       THEN /\ mainst' = [mainst EXCEPT !.pc = "failed", !.error = "AssertionError"]
            /\ UNCHANGED <<model, settings>>
       ELSE /\ model' = m
            /\ settings' = MainSettings
            /\ mainst' = [mainst EXCEPT !.pc = "loop", !.k = 1]
  /\ UNCHANGED <<argv, fs, pos, call>>

\* lines 70-81: open the next WAV file, create its stream, call transcribe
MainOpen ==
  /\ mainst.pc = "loop"
  /\ mainst.k <= Len(argv.wav)
  /\ LET k == argv.wav[mainst.k] IN
     IF fs[k].ok
     THEN /\ mainst' = [mainst EXCEPT !.pc = "await", !.open = @ \cup {k},
                                      !.opened = Append(@, k)]
          /\ call' = [call EXCEPT ![k].pc = "called"]
     ELSE /\ mainst' = [mainst EXCEPT !.pc = "failed", !.error = "wave.Error"]
          /\ UNCHANGED call
  /\ UNCHANGED <<argv, fs, model, settings, pos>>

\* line 70: the loop is over
MainDone ==
  /\ mainst.pc = "loop"
  /\ mainst.k > Len(argv.wav)
  /\ mainst' = [mainst EXCEPT !.pc = "done"]
  /\ UNCHANGED <<argv, fs, model, settings, pos, call>>

\* lines 81-82: transcribe returned; log the text, leave the with block, loop
MainLog ==
  /\ mainst.pc = "await"
  /\ LET k == argv.wav[mainst.k] IN
     /\ call[k].pc = "done"
     /\ call[k].outcome.kind = "returned"
     /\ mainst' = [mainst EXCEPT !.pc = "loop",
                                 !.k = NextWav(@),
                                 !.open = WithExit(@, k, FALSE),
                                 !.log = Append(@, <<k, call[k].outcome.value>>)]
  /\ UNCHANGED <<argv, fs, model, settings, pos, call>>

\* line 81: transcribe raised; the exception leaves the with block and main
MainRaise ==
  /\ mainst.pc = "await"
  /\ LET k == argv.wav[mainst.k] IN
     /\ call[k].pc = "done"
     /\ call[k].outcome.kind = "raised"
     /\ mainst' = [mainst EXCEPT !.pc = "failed",
                                 !.open = WithExit(@, k, TRUE),
                                 !.error = call[k].outcome.error]
  /\ UNCHANGED <<argv, fs, model, settings, pos, call>>

InitMain ==
  /\ \E id \in ModelIds, n \in ChunkSizes, nwav \in 1..NumCalls :
       argv = [model |-> id, wav |-> [i \in 1..nwav |-> i], chunk_size |-> n]
  /\ fs \in [Calls -> [ok : BOOLEAN, nframes : 0..MaxFrames]]
  /\ \A k \in Calls : (~fs[k].ok \/ k > Len(argv.wav)) => fs[k] = [ok |-> FALSE, nframes |-> 0]
  /\ model = Unset
  /\ settings = Unset
  /\ pos = [c \in Calls |-> 0]
  /\ call = [c \in Calls |-> IdleCall]
  /\ mainst = [pc |-> "start", k |-> 0, open |-> {}, opened |-> <<>>, log |-> <<>>, error |-> ""]

NextMain ==
  \/ MainLookup
  \/ MainOpen
  \/ MainDone
  \/ MainLog
  \/ MainRaise
  \/ \E c \in Calls :
       \/ transcribe(c)
       \/ BackendRead(c)
       \/ BackendReturn(c)
       \/ BackendFail(c)
       \/ Cancel(c)

SpecMain == InitMain /\ [][NextMain]_vars

\* ================================================================ claims
KnownTypes == {KALDI, COQUI_STT}

\* the backend registered for a known type
Registered(t) == IF t = KALDI THEN "transcribe_kaldi" ELSE "transcribe_coqui_stt"

\* call c has entered transcribe()'s body
Dispatched(c) == call[c].pc \in {"running", "done"}

\* the frames of a sequence of chunks, in order
RECURSIVE Flatten(_)
Flatten(chunks) == IF chunks = <<>> THEN <<>> ELSE Head(chunks) \o Flatten(Tail(chunks))

\* C1: a call whose model has a known type invokes exactly one backend, once, and
\* it is the one registered for that type, whether the backend returns or fails;
\* before the dispatch no backend has been invoked.
C1_ExactlyTheRegisteredBackend ==
  \A c \in Calls :
    model.type \in KnownTypes =>
      /\ Dispatched(c) =>
           /\ Len(call[c].invoked) = 1
           /\ call[c].invoked[1].backend = Registered(model.type)
      /\ ~Dispatched(c) => call[c].invoked = <<>>

\* a COQUI_STT call whose backend failed after one invocation
C1_Witness ==
  \E c \in Calls :
    /\ model.type = COQUI_STT
    /\ call[c].pc = "done"
    /\ call[c].backend_out.kind = "raised"
    /\ Len(call[c].invoked) = 1

\* C2: with a model of an unregistered type the call fails with the dispatcher's
\* error, whose message holds the model's id and type; no backend is invoked and
\* no chunk of the stream has been consumed.
C2_UnsupportedTypeFails ==
  \A c \in Calls :
    (model.type \notin KnownTypes /\ Dispatched(c)) =>
      /\ call[c].pc = "done"
      /\ call[c].outcome.kind = "raised"
      /\ call[c].outcome.error = "TranscribingError"
      /\ \E i \in DOMAIN call[c].outcome.value : call[c].outcome.value[i] = model.id
      /\ \E i \in DOMAIN call[c].outcome.value : call[c].outcome.value[i] = model.type
      /\ call[c].invoked = <<>>
      /\ call[c].received = <<>>
      /\ pos[c] = 0

\* a call with the unregistered type has failed over a non-empty stream
C2_Witness ==
  \E c \in Calls :
    /\ model = OtherModel
    /\ call[c].pc = "done"
    /\ call[c].outcome.kind = "raised"
    /\ fs[c].nframes > 0
    /\ argv.chunk_size > 0

\* C3: when main's lookup finds no model of the requested id, no WAV file is
\* opened, transcribe is never called, main does not run to its end, and its
\* failure is not one that comes out of the dispatcher.
C3_UnknownIdFailsBeforeDispatch ==
  Lookup(argv.model) = None =>
    /\ mainst.opened = <<>>
    /\ \A c \in Calls : call[c].pc = "idle"
    /\ mainst.pc # "done"
    /\ mainst.error \notin {"TranscribingError", "AttributeError"}

\* C4: a failure raised by the backend is what the call raises: same error, no
\* text in its place, and still exactly one backend invocation.
C4_BackendFailurePropagates ==
  \A c \in Calls :
    call[c].backend_out.kind = "raised" =>
      /\ call[c].pc = "done"
      /\ call[c].outcome.kind = "raised"
      /\ call[c].outcome.error = call[c].backend_out.error
      /\ call[c].outcome.value = <<>>
      /\ Len(call[c].invoked) = 1
      /\ call[c].invoked[1].backend = Registered(model.type)

\* a backend failed by itself after it had received a chunk
C4_Witness ==
  \E c \in Calls :
    /\ call[c].backend_out.kind = "raised"
    /\ call[c].backend_out.error \in BackendErrors
    /\ call[c].received # <<>>

\* C5: the text the backend returns is the text the call returns, the empty text
\* included; the backend was given the caller's model, settings and stream, and
\* every frame taken from the stream was taken by the backend.
C5_ResultAndArgumentsUnchanged ==
  \A c \in Calls :
    /\ call[c].backend_out.kind = "returned" =>
         /\ call[c].outcome.kind = "returned"
         /\ call[c].outcome.value = call[c].backend_out.value
    /\ call[c].invoked # <<>> =>
         /\ call[c].invoked[1].args = [model |-> model, settings |-> settings, audio_stream |-> c]
         /\ pos[c] = Len(Flatten(call[c].received))

\* one call returned the empty text and another a non-empty text, after reading
C5_Witness ==
  \E c, d \in Calls :
    /\ call[c].outcome = [kind |-> "returned", error |-> "", value |-> <<"">>]
    /\ call[d].outcome.kind = "returned"
    /\ call[d].outcome.value # <<"">>
    /\ call[d].received # <<>>

\* C6: the chunks a backend has received are a prefix of the chunks of its source,
\* in order, and all of them once the backend has seen the end of the stream.
C6_ChunksInOrder ==
  \A c \in Calls :
    call[c].invoked # <<>> =>
      /\ IsPrefix(call[c].received, Chunks(c, 0, argv.chunk_size))
      /\ call[c].exhausted => call[c].received = Chunks(c, 0, argv.chunk_size)

\* streams of zero chunks and of two chunks have been consumed to the end
C6_Witness ==
  \E c, d \in Calls :
    /\ call[c].exhausted /\ Len(call[c].received) = 0
    /\ call[d].exhausted /\ Len(call[d].received) = 2

\* what every step of the concurrent calls keeps
C7_Step ==
  /\ model' = model
  /\ settings' = settings
  /\ \A c \in Calls :
       /\ \A i \in DOMAIN call'[c].received :
            \A j \in DOMAIN call'[c].received[i] : call'[c].received[i][j][1] = c
       /\ call'[c].invoked # <<>> => call'[c].invoked[1].args.model = model
       /\ call'[c].invoked # <<>> => call'[c].invoked[1].args.settings = settings
       /\ call'[c] # call[c] =>
            \A d \in Calls \ {c} : call'[d] = call[d] /\ pos'[d] = pos[d]

\* C7: under every interleaving, a backend receives frames of its own call's
\* stream only, a step of one call changes no other call and no other stream,
\* and the shared model and settings never change.
C7_ConcurrentCallsIndependent == [][C7_Step]_vars

\* two calls are in their backends at once, each having received a chunk
C7_Witness ==
  \E c, d \in Calls :
    /\ c # d
    /\ call[c].pc = "running" /\ call[c].received # <<>>
    /\ call[d].pc = "running" /\ call[d].received # <<>>

\* call c was cancelled while its backend was suspended
Cancelled(c) == call[c].backend_out.error = "CancelledError"

C8_Step ==
  \A c \in Calls :
    /\ Cancelled(c)' =>
         /\ call'[c].pc = "done"
         /\ call'[c].outcome.kind = "raised"
         /\ call'[c].outcome.error = "CancelledError"
         /\ call'[c].outcome.value = <<>>
    /\ Cancelled(c) =>
         /\ pos'[c] = pos[c]
         /\ call'[c] = call[c]

\* C8: a call cancelled in its backend yields no text, and from then on nothing
\* is read from its stream: it stays as far consumed as it was.
C8_CancelStopsConsumption == [][C8_Step]_vars

\* a call was cancelled after its first chunk with more chunks left unread
C8_Witness ==
  \E c \in Calls :
    /\ Cancelled(c)
    /\ Len(call[c].received) = 1
    /\ ~call[c].exhausted
    /\ Len(Chunks(c, 0, argv.chunk_size)) > 1

\* C9: a stream of zero chunks is handed to the selected backend like any other:
\* the backend is invoked once with that stream, and the call ends as the
\* backend ends.
C9_EmptyStreamForwarded ==
  \A c \in Calls :
    (Chunks(c, 0, argv.chunk_size) = <<>> /\ model.type \in KnownTypes /\ Dispatched(c)) =>
      /\ Len(call[c].invoked) = 1
      /\ call[c].invoked[1].backend = Registered(model.type)
      /\ call[c].invoked[1].args.audio_stream = c
      /\ call[c].pc = "done" =>
           /\ call[c].outcome.kind = call[c].backend_out.kind
           /\ call[c].outcome.error = call[c].backend_out.error
           /\ call[c].outcome.value = call[c].backend_out.value

\* the backend saw the end of an empty stream and returned the empty text
C9_Witness ==
  \E c \in Calls :
    /\ fs[c].nframes = 0
    /\ call[c].exhausted
    /\ call[c].received = <<>>
    /\ call[c].outcome = [kind |-> "returned", error |-> "", value |-> <<"">>]

\* C10: main handles the WAV files one at a time in command line order: at most
\* one file is open, a call is made on a fresh stream over its own open file,
\* the call for a file begins only after the previous call returned and its file
\* was closed, and after a failure every file is closed and no later file is
\* opened or transcribed.
C10_OneFileAtATime ==
  /\ Cardinality(mainst.open) <= 1
  /\ \A i \in DOMAIN mainst.opened : mainst.opened[i] = argv.wav[i]
  /\ \A k \in Calls :
       /\ call[k].pc = "called" => pos[k] = 0
       /\ call[k].pc \in {"called", "running"} => mainst.open = {k}
       /\ call[k].invoked # <<>> => call[k].invoked[1].args.audio_stream = k
       /\ (k > 1 /\ call[k].pc # "idle") =>
            /\ call[k - 1].pc = "done"
            /\ call[k - 1].outcome.kind = "returned"
            /\ (k - 1) \notin mainst.open
  /\ mainst.pc \in {"failed", "done"} =>
       /\ mainst.open = {}
       /\ \A k \in Calls : call[k].pc \in {"idle", "done"}
  /\ mainst.pc = "failed" =>
       \A k \in Calls :
         k > mainst.k => (call[k].pc = "idle" /\ \A i \in DOMAIN mainst.opened : mainst.opened[i] # k)

\* the call for the first of two readable files failed in its backend
C10_Witness ==
  /\ mainst.pc = "failed"
  /\ mainst.error \in BackendErrors
  /\ Len(argv.wav) = 2
  /\ fs[2].ok
  /\ mainst.opened = <<1>>
  /\ call[1].received # <<>>

====
